---- MODULE Spec2Model ----
(***************************************************************************)
(* A model of scripts/validate_urls.py: URL extraction from markdown and   *)
(* Rust doc comments, per-URL validation with curl, the bounded worker     *)
(* pool of main(), the sorted report and the exit code.                    *)
(*                                                                         *)
(* Text is a sequence of tokens.  A token is one character, except that    *)
(* the literal text a pattern of the script matches as a unit is one       *)
(* token: "http://" and "https://" (the `https?://` of both patterns),     *)
(* "///" and "//!" (DOCSTRING_PATTERN), and the words "example", "com",    *)
(* "crates", "io" of the skip lists.  Substring tests of the script are    *)
(* contiguous-subsequence tests on tokens.  Indices are the script's:      *)
(* 0-based, At(s, i) is s[i] and Slice(s, a, b) is s[a:b].  The grave      *)
(* accent character, which a string literal cannot hold, is the token      *)
(* Backtick.                                                               *)
(***************************************************************************)
EXTENDS Integers, Sequences, FiniteSets, Bags, TLC

VARIABLES
    \* extraction of one file (extract_urls_from_markdown / _rust)
    file,           \* the file handed to the extractor: [kind, path, lines]
    urls,           \* the list the extractor returned
    \* one call of validate_url
    url,            \* the argument of validate_url
    curl,           \* what subprocess.run does for this call
    ret,            \* what the call produced: a returned triple or a raised exception
    \* one run of main()
    pc,             \* where the program is
    files,          \* the files find_markdown_files / find_rust_files yield, in order
    all_urls,       \* main(): all_urls
    url_locations,  \* main(): url_locations, url -> list of (file_path, line_no)
    unique_urls,    \* main(): unique_urls
    submitted,      \* how many of unique_urls the comprehension has submitted
    work_queue,     \* the executor's queue of work items not yet taken by a worker
    num_threads,    \* worker threads the executor has started
    fut,            \* url -> its future: state, outcome, whether as_completed yielded it
    results,        \* main(): results
    report,         \* the FAIL entries printed, in order
    counts,         \* main(): fail_count, pass_count, skip_count
    exit_code       \* the process's exit status, -1 while it runs

extractVars == <<file, urls>>
validateVars == <<url, curl, ret>>
mainVars == <<files, all_urls, url_locations, unique_urls, submitted,
              work_queue, num_threads, fut, results, report, counts, exit_code>>
vars == <<file, urls, url, curl, ret, pc, files, all_urls, url_locations,
          unique_urls, submitted, work_queue, num_threads, fut, results,
          report, counts, exit_code>>

(***************************************************************************)
(* Strings                                                                 *)
(***************************************************************************)
At(s, i) == s[i + 1]

Slice(s, a, b) == SubSeq(s, a + 1, b)

\* `sub in s` of Python: sub is a contiguous part of s.
StrIn(sub, s) ==
    \E a \in 0..(Len(s) - Len(sub)) : Slice(s, a, a + Len(sub)) = sub

\* The first and the last character of a token.
FirstChar(tok) ==
    IF tok \in {"http://", "https://"} THEN "h"
    ELSE IF tok \in {"///", "//!"} THEN "/"
    ELSE IF tok = "example" THEN "e"
    ELSE IF tok \in {"com", "crates"} THEN "c"
    ELSE IF tok = "io" THEN "i"
    ELSE tok

LastChar(tok) ==
    IF tok \in {"http://", "https://", "///"} THEN "/"
    ELSE IF tok = "//!" THEN "!"
    ELSE IF tok = "example" THEN "e"
    ELSE IF tok = "com" THEN "m"
    ELSE IF tok = "crates" THEN "s"
    ELSE IF tok = "io" THEN "o"
    ELSE tok

RECURSIVE rstrip(_, _)
rstrip(s, chars) ==
    IF s # <<>> /\ LastChar(s[Len(s)]) \in chars
    THEN rstrip(SubSeq(s, 1, Len(s) - 1), chars)
    ELSE s

RECURSIVE lstrip(_, _)
lstrip(s, chars) ==
    IF s # <<>> /\ FirstChar(s[1]) \in chars
    THEN lstrip(Tail(s), chars)
    ELSE s

Whitespace == {" ", "\t", "\n"}

Backtick == "backtick"

SchemeTokens == {"http://", "https://"}

(***************************************************************************)
(* extract_markdown_link_url                                               *)
(***************************************************************************)
\* LinkScan without the depth count: the scan stops at the first ")".
RECURSIVE LinkScanNoDepth(_, _, _)
LinkScanNoDepth(text, i, paren_depth) ==
    IF i >= Len(text) THEN i
    ELSE IF At(text, i) = ")" THEN i
    ELSE IF At(text, i) \in Whitespace THEN i
    ELSE LinkScanNoDepth(text, i + 1, paren_depth)

\* The while loop: the index at which the scan stops.
RECURSIVE LinkScan(_, _, _)
LinkScan(text, i, paren_depth) ==
    IF i >= Len(text) THEN i
    ELSE IF At(text, i) = "(" THEN LinkScan(text, i + 1, paren_depth + 1)
    ELSE IF At(text, i) = ")"
         THEN IF paren_depth = 0 THEN i
              ELSE LinkScan(text, i + 1, paren_depth - 1)
    ELSE IF At(text, i) \in Whitespace THEN i
    ELSE LinkScan(text, i + 1, paren_depth)

extract_markdown_link_url(text, start_pos) ==
    Slice(text, start_pos, LinkScan(text, start_pos, 0))

\* re.search(r"\]\((https?://)", line[i:]): the index in line of the first
\* match's "]", or -1.
MdSearch(line, i) ==
    LET hits == {j \in i..(Len(line) - 3) :
                    /\ At(line, j) = "]"
                    /\ At(line, j + 1) = "("
                    /\ At(line, j + 2) \in SchemeTokens}
    IN IF hits = {} THEN -1 ELSE CHOOSE j \in hits : \A k \in hits : j <= k

\* The link loop of both extractors: the entries it appends for one line.
RECURSIVE LinkEntries(_, _, _, _)
LinkEntries(path, line_no, line, i) ==
    IF i >= Len(line) THEN <<>>
    ELSE LET m == MdSearch(line, i)
         IN IF m = -1 THEN <<>>
            ELSE LET url_start == m + 2
                     u == extract_markdown_link_url(line, url_start)
                 IN <<[file |-> path, line_no |-> line_no, url |-> u,
                       via |-> "link", start |-> url_start, match |-> u]>>
                    \o LinkEntries(path, line_no, line, url_start + Len(u))

(***************************************************************************)
(* BARE_URL_PATTERN                                                        *)
(***************************************************************************)
\* The class [^\s"'<>)\]] excludes these.
BareExcluded == Whitespace \cup {"\"", "'", "<", ">", ")", "]"}

\* The end of the maximal run of class characters starting at i.
RECURSIVE BareRunEnd(_, _)
BareRunEnd(line, i) ==
    IF i < Len(line) /\ At(line, i) \notin BareExcluded
    THEN BareRunEnd(line, i + 1)
    ELSE i

\* finditer: the matches from position p on, left to right, not overlapping,
\* each as [start, text].
RECURSIVE BareMatches(_, _)
BareMatches(line, p) ==
    LET hits == {j \in p..(Len(line) - 2) :
                    /\ At(line, j) \in SchemeTokens
                    /\ At(line, j + 1) \notin BareExcluded}
    IN IF hits = {} THEN <<>>
       ELSE LET j == CHOOSE h \in hits : \A k \in hits : h <= k
                e == BareRunEnd(line, j + 1)
            IN <<[start |-> j, text |-> Slice(line, j, e)]>>
               \o BareMatches(line, e)

\* .rstrip(".,;:") of the markdown extractor.
MdStrip(m) == rstrip(m, {".", ",", ";", ":"})

\* RsStrip with the characters of the markdown extractor only.
RsStripLikeMarkdown(m) == lstrip(rstrip(m, {".", ",", ";", ":"}), {"<"})

\* The Rust extractor's rstrip of . , ; : ' " and the grave accent, then
\* lstrip("<").
RsStrip(m) == lstrip(rstrip(m, {".", ",", ";", ":", "'", "\"", Backtick}), {"<"})

\* The bare-URL loop: each match is stripped and appended unless it is a
\* substring of a url already in the file's list.
RECURSIVE AddBare(_, _, _, _, _, _)
AddBare(kind, path, line_no, matches, k, acc) ==
    IF k > Len(matches) THEN acc
    ELSE LET m == matches[k]
             u == IF kind = "md" THEN MdStrip(m.text) ELSE RsStrip(m.text)
             seen == \E n \in 1..Len(acc) : StrIn(u, acc[n].url)
         IN AddBare(kind, path, line_no, matches, k + 1,
                    IF seen THEN acc
                    ELSE Append(acc, [file |-> path, line_no |-> line_no,
                                      url |-> u, via |-> "bare",
                                      start |-> m.start, match |-> m.text]))

\* DOCSTRING_PATTERN.match(line): optional whitespace, then /// or //!.
RECURSIVE IsDocstring(_)
IsDocstring(line) ==
    /\ line # <<>>
    /\ \/ line[1] \in {"///", "//!"}
       \/ line[1] \in Whitespace /\ IsDocstring(Tail(line))

\* One iteration of the extractor's loop over the lines.
ExtractLine(kind, path, line_no, line, acc) ==
    IF kind = "rs" /\ ~IsDocstring(line) THEN acc
    ELSE AddBare(kind, path, line_no, BareMatches(line, 0), 1,
                 acc \o LinkEntries(path, line_no, line, 0))

RECURSIVE ExtractLines(_, _, _, _, _)
ExtractLines(kind, path, lines, n, acc) ==
    IF n > Len(lines) THEN acc
    ELSE ExtractLines(kind, path, lines, n + 1,
                      ExtractLine(kind, path, n, lines[n], acc))

extract_urls_from_markdown(f) == ExtractLines("md", f.path, f.lines, 1, <<>>)

extract_urls_from_rust(f) == ExtractLines("rs", f.path, f.lines, 1, <<>>)

(***************************************************************************)
(* validate_url                                                            *)
(***************************************************************************)
\* any(placeholder in url for placeholder in ["{", "<", "..."]): the list
\* without its last entry, "example.com".
HasPlaceholderNoExample(u) ==
    \/ StrIn(<<"{">>, u)
    \/ StrIn(<<"<">>, u)
    \/ StrIn(<<".", ".", ".">>, u)

\* any(placeholder in url for placeholder in ["{", "<", "...", "example.com"])
HasPlaceholder(u) ==
    \/ StrIn(<<"{">>, u)
    \/ StrIn(<<"<">>, u)
    \/ StrIn(<<".", ".", ".">>, u)
    \/ StrIn(<<"example", ".", "com">>, u)

\* The netloc of urlparse(url): what follows the scheme's "//" up to the
\* first of / ? #.
Netloc(u) ==
    IF u = <<>> \/ u[1] \notin SchemeTokens THEN <<>>
    ELSE LET ends == {n \in 2..Len(u) : FirstChar(u[n]) \in {"/", "?", "#"}}
             stop == IF ends = {} THEN Len(u) + 1
                     ELSE CHOOSE n \in ends : \A k \in ends : n <= k
         IN SubSeq(u, 2, stop - 1)

\* urlparse raises ValueError("Invalid IPv6 URL") when the netloc holds one
\* of "[" and "]" without the other.
UrlparseRaises(u) ==
    LET has(c) == \E n \in 1..Len(Netloc(u)) : Netloc(u)[n] = c
    IN has("[") # has("]")

\* "crates.io" in url
Allowlisted(u) == StrIn(<<"crates", ".", "io">>, u)

startswith(s, c) == Len(s) >= 1 /\ s[1] = c

Returned(u, status, reason) ==
    [kind |-> "return", url |-> u, status |-> status, reason |-> reason]

\* CheckStatus without the test of curl's return code.
CheckStatusIgnoringReturncode(u, c) ==
    IF c.kind = "timeout" THEN Returned(u, "FAIL", <<"Timeout after 10s">>)
    ELSE IF c.kind = "exception" THEN Returned(u, "FAIL", <<"Exception">>)
    ELSE IF startswith(c.stdout, "2")
         THEN Returned(u, "PASS", <<"HTTP ">> \o c.stdout)
    ELSE IF startswith(c.stdout, "3")
         THEN Returned(u, "PASS", <<"HTTP ">> \o c.stdout \o <<" (redirect)">>)
    ELSE IF c.stdout = <<"0", "0", "0">>
         THEN Returned(u, "FAIL", <<"Connection failed">>)
    ELSE Returned(u, "FAIL", <<"HTTP ">> \o c.stdout)

\* The try block: subprocess.run and the classification of what it gave.
\* c is what subprocess.run does: it completes with a return code and the
\* status code on stdout, raises TimeoutExpired, or raises something else.
CheckStatus(u, c) ==
    IF c.kind = "timeout" THEN Returned(u, "FAIL", <<"Timeout after 10s">>)
    ELSE IF c.kind = "exception" THEN Returned(u, "FAIL", <<"Exception">>)
    ELSE IF c.returncode # 0 THEN Returned(u, "FAIL", <<"Curl error">>)
    ELSE IF startswith(c.stdout, "2")
         THEN Returned(u, "PASS", <<"HTTP ">> \o c.stdout)
    ELSE IF startswith(c.stdout, "3")
         THEN Returned(u, "PASS", <<"HTTP ">> \o c.stdout \o <<" (redirect)">>)
    ELSE IF c.stdout = <<"0", "0", "0">>
         THEN Returned(u, "FAIL", <<"Connection failed">>)
    ELSE Returned(u, "FAIL", <<"HTTP ">> \o c.stdout)

validate_url(u, c) ==
    IF HasPlaceholder(u)
    THEN Returned(u, "SKIP", <<"Template/placeholder URL">>)
    ELSE IF UrlparseRaises(u) THEN [kind |-> "raise", exc |-> "ValueError"]
    ELSE IF Netloc(u) = <<>>
         THEN Returned(u, "SKIP", <<"Relative or fragment URL">>)
    ELSE IF Allowlisted(u)
         THEN Returned(u, "SKIP", <<"Allowlisted (blocks CI user agents)">>)
    ELSE CheckStatus(u, c)

\* What subprocess.run(["curl", ...], timeout=timeout + 2) can do.
StatusCodes == {<<"0", "0", "0">>, <<"2", "0", "0">>, <<"3", "0", "1">>,
                <<"4", "0", "4">>}

CurlOutcomes ==
    {[kind |-> "completed", returncode |-> rc, stdout |-> code] :
        rc \in {0, 6, 28}, code \in StatusCodes}
    \cup {[kind |-> "timeout"], [kind |-> "exception"]}

(***************************************************************************)
(* main(): grouping, sorting, reporting                                    *)
(***************************************************************************)
\* The code points of a token's characters: Python compares strings by them.
CodePoints(tok) ==
    CASE tok = "http://" -> <<104, 116, 116, 112, 58, 47, 47>>
      [] tok = "https://" -> <<104, 116, 116, 112, 115, 58, 47, 47>>
      [] tok = "///" -> <<47, 47, 47>>
      [] tok = "//!" -> <<47, 47, 33>>
      [] tok = "//" -> <<47, 47>>
      [] tok = "example" -> <<101, 120, 97, 109, 112, 108, 101>>
      [] tok = "com" -> <<99, 111, 109>>
      [] tok = "crates" -> <<99, 114, 97, 116, 101, 115>>
      [] tok = "io" -> <<105, 111>>
      [] tok = "\t" -> <<9>>
      [] tok = "\n" -> <<10>>
      [] tok = " " -> <<32>>
      [] tok = "\"" -> <<34>>
      [] tok = "'" -> <<39>>
      [] tok = "(" -> <<40>>
      [] tok = ")" -> <<41>>
      [] tok = "," -> <<44>>
      [] tok = "." -> <<46>>
      [] tok = "/" -> <<47>>
      [] tok = ":" -> <<58>>
      [] tok = ";" -> <<59>>
      [] tok = "<" -> <<60>>
      [] tok = ">" -> <<62>>
      [] tok = "[" -> <<91>>
      [] tok = "\\" -> <<92>>
      [] tok = "]" -> <<93>>
      [] tok = Backtick -> <<96>>
      [] tok = "a" -> <<97>>
      [] tok = "b" -> <<98>>
      [] tok = "x" -> <<120>>
      [] tok = "{" -> <<123>>

RECURSIVE Chars(_)
Chars(s) == IF s = <<>> THEN <<>> ELSE CodePoints(s[1]) \o Chars(Tail(s))

\* a < b for two sequences of code points, as Python orders strings.
RECURSIVE CharsLess(_, _)
CharsLess(a, b) ==
    IF b = <<>> THEN FALSE
    ELSE IF a = <<>> THEN TRUE
    ELSE IF a[1] # b[1] THEN a[1] < b[1]
    ELSE CharsLess(Tail(a), Tail(b))

StrLess(a, b) == CharsLess(Chars(a), Chars(b))

\* status_order = {"FAIL": 0, "PASS": 1, "SKIP": 2}
status_order(st) == IF st = "FAIL" THEN 0 ELSE IF st = "PASS" THEN 1 ELSE 2

\* A sort key that leaves the url out: x before y by status alone.
KeyLessStatusOnly(x, y) == status_order(x.status) < status_order(y.status)

\* key=lambda x: (status_order[x[1]], x[0]): x sorts before y.
KeyLess(x, y) ==
    \/ status_order(x.status) < status_order(y.status)
    \/ /\ status_order(x.status) = status_order(y.status)
       /\ StrLess(x.url, y.url)

\* list.sort: a stable sort; each element is put after the last element of
\* the sorted prefix that does not sort after it.
RECURSIVE InsertSorted(_, _)
InsertSorted(sorted, x) ==
    IF sorted = <<>> THEN <<x>>
    ELSE IF KeyLess(x, sorted[Len(sorted)])
         THEN Append(InsertSorted(SubSeq(sorted, 1, Len(sorted) - 1), x),
                     sorted[Len(sorted)])
         ELSE Append(sorted, x)

RECURSIVE SortFrom(_, _, _)
SortFrom(rs, n, acc) ==
    IF n > Len(rs) THEN acc ELSE SortFrom(rs, n + 1, InsertSorted(acc, rs[n]))

SortResults(rs) == SortFrom(rs, 1, <<>>)

\* url_locations.keys(): the urls of all_urls in the order of their first
\* appearance.
RECURSIVE Keys(_, _, _)
Keys(entries, n, acc) ==
    IF n > Len(entries) THEN acc
    ELSE Keys(entries, n + 1,
              IF \E k \in 1..Len(acc) : acc[k] = entries[n].url THEN acc
              ELSE Append(acc, entries[n].url))

\* url_locations[u]: the (file_path, line_no) of the entries of u, in order.
RECURSIVE Locations(_, _, _)
Locations(entries, n, u) ==
    IF n > Len(entries) THEN <<>>
    ELSE (IF entries[n].url = u
          THEN <<[file |-> entries[n].file, line_no |-> entries[n].line_no]>>
          ELSE <<>>)
         \o Locations(entries, n + 1, u)

\* all_urls: the files' entries, markdown files first.  A file that cannot
\* be read contributes no entry and is not among the files.
RECURSIVE ExtractAll(_, _)
ExtractAll(fs, n) ==
    IF n > Len(fs) THEN <<>>
    ELSE (IF fs[n].kind = "md" THEN extract_urls_from_markdown(fs[n])
          ELSE extract_urls_from_rust(fs[n]))
         \o ExtractAll(fs, n + 1)

Min(a, b) == IF a < b THEN a ELSE b

\* The lines printed for the FAIL entries of the sorted results.
RECURSIVE ReportOf(_, _, _)
ReportOf(rs, n, locs) ==
    IF n > Len(rs) THEN <<>>
    ELSE (IF rs[n].status = "FAIL"
          THEN <<[url |-> rs[n].url, reason |-> rs[n].reason,
                  found_in |-> SubSeq(locs[rs[n].url], 1,
                                      Min(3, Len(locs[rs[n].url]))),
                  more |-> IF Len(locs[rs[n].url]) > 3
                           THEN Len(locs[rs[n].url]) - 3 ELSE 0]>>
          ELSE <<>>)
         \o ReportOf(rs, n + 1, locs)

CountOf(rs, st) == Cardinality({n \in 1..Len(rs) : rs[n].status = st})

max_workers == 10

(***************************************************************************)
(* Bounded inputs                                                          *)
(***************************************************************************)
\* All strings over alphabet A of length at most n.
RECURSIVE StrUpTo(_, _)
StrUpTo(A, n) ==
    IF n = 0 THEN {<<>>}
    ELSE LET S == StrUpTo(A, n - 1)
         IN S \cup {Append(s, c) : s \in {t \in S : Len(t) = n - 1}, c \in A}

MaxTail == 4
MaxBare == 4
MaxUrlTail == 3
MaxLines == 3
MaxQueued == 1

\* What follows "](http://" or "](https://" in the lines of SpecLink.
LinkAlphabet == {"(", ")", "a", " ", "\\", "]", "http://"}

\* The lines of SpecBare.
BareAlphabet == {"http://", "a", ".", ":", Backtick, "'", "<", " "}

\* What follows "http://" in the urls of SpecValidate.
ValidateAlphabet == {"a", "/", "[", "{", "<", ".", "example", "com", "crates", "io"}

\* How a line of the file starts: a markdown line, a Rust doc comment, a
\* Rust line that is no doc comment.
LineKinds == {[kind |-> "md", path |-> "README.md", head |-> <<>>],
              [kind |-> "rs", path |-> "src/lib.rs", head |-> <<"///">>],
              [kind |-> "rs", path |-> "src/lib.rs", head |-> <<" ", "//!">>],
              [kind |-> "rs", path |-> "src/lib.rs", head |-> <<"//">>]}

OneLineFile(k, line) ==
    [kind |-> k.kind, path |-> k.path, lines |-> <<k.head \o line>>]

ValidateIdle ==
    /\ url = <<>>
    /\ curl = [kind |-> "none"]
    /\ ret = [kind |-> "none"]

MainIdle ==
    /\ files = <<>>
    /\ all_urls = <<>>
    /\ url_locations = <<>>
    /\ unique_urls = <<>>
    /\ submitted = 0
    /\ work_queue = <<>>
    /\ num_threads = 0
    /\ fut = <<>>
    /\ results = <<>>
    /\ report = <<>>
    /\ counts = [fail |-> 0, pass |-> 0, skip |-> 0]
    /\ exit_code = -1

ExtractIdle ==
    /\ file = [kind |-> "md", path |-> "", lines |-> <<>>]
    /\ urls = <<>>

(***************************************************************************)
(* The extractors, applied to one file                                     *)
(***************************************************************************)
InitLink ==
    /\ pc = "extract"
    /\ \E k \in LineKinds, scheme \in SchemeTokens,
          tail \in StrUpTo(LinkAlphabet, MaxTail) :
          file = OneLineFile(k, <<"]", "(", scheme>> \o tail)
    /\ urls = <<>>
    /\ ValidateIdle
    /\ MainIdle

InitBare ==
    /\ pc = "extract"
    /\ \E k \in LineKinds, line \in StrUpTo(BareAlphabet, MaxBare) :
          file = OneLineFile(k, line)
    /\ urls = <<>>
    /\ ValidateIdle
    /\ MainIdle

ExtractMarkdown ==
    /\ pc = "extract"
    /\ file.kind = "md"
    /\ urls' = extract_urls_from_markdown(file)
    /\ pc' = "extracted"
    /\ UNCHANGED <<file, validateVars, mainVars>>

ExtractRust ==
    /\ pc = "extract"
    /\ file.kind = "rs"
    /\ urls' = extract_urls_from_rust(file)
    /\ pc' = "extracted"
    /\ UNCHANGED <<file, validateVars, mainVars>>

NextExtract == ExtractMarkdown \/ ExtractRust

SpecLink == InitLink /\ [][NextExtract]_vars

SpecBare == InitBare /\ [][NextExtract]_vars

(***************************************************************************)
(* C3: the URL of a markdown link                                          *)
(***************************************************************************)
LinkEntriesOf(us) == {n \in 1..Len(us) : us[n].via = "link"}

BareEntriesOf(us) == {n \in 1..Len(us) : us[n].via = "bare"}

\* Opening minus closing parentheses of text in the positions a..b-1.
ParenBalance(text, a, b) ==
    Cardinality({q \in a..(b - 1) : At(text, q) = "("})
    - Cardinality({q \in a..(b - 1) : At(text, q) = ")"})

\* The positions at which a link's URL may end: the end of the text, a
\* whitespace character, or a ")" that closes no "(" of the URL.
LinkStops(text, start) ==
    {p \in start..Len(text) :
        \/ p = Len(text)
        \/ At(text, p) \in Whitespace
        \/ At(text, p) = ")" /\ ParenBalance(text, start, p) = 0}

\* The ")" the claim names: not preceded by a backslash, at depth 0.
ClaimCloses(text, start) ==
    {p \in start..(Len(text) - 1) :
        /\ At(text, p) = ")"
        /\ At(text, p - 1) # "\\"
        /\ ParenBalance(text, start, p) = 0}

Least(S) == CHOOSE p \in S : \A q \in S : p <= q

\* C3 as stated: extract_markdown_link_url returns the text from the start
\* of the URL up to the first unescaped ")" at parenthesis depth 0,
\* whenever the line has such a ")".
C3_UpToMatchingParen ==
    pc = "extracted" =>
        \A n \in LinkEntriesOf(urls) :
            LET text == file.lines[urls[n].line_no]
                closes == ClaimCloses(text, urls[n].start)
            IN closes # {} =>
                  urls[n].url = Slice(text, urls[n].start, Least(closes))

\* C3 as amended: extract_markdown_link_url returns the text from the start
\* of the URL up to the first position that is the end of the text, a
\* whitespace character, or a ")" (escaped or not) at parenthesis depth 0.
C3_UpToFirstStop ==
    pc = "extracted" =>
        \A n \in LinkEntriesOf(urls) :
            LET text == file.lines[urls[n].line_no]
            IN urls[n].url =
                  Slice(text, urls[n].start, Least(LinkStops(text, urls[n].start)))

\* A link whose URL holds a nested pair of parentheses and ends at the
\* link's closing ")".
C3_Witness ==
    /\ pc = "extracted"
    /\ \E n \in LinkEntriesOf(urls) :
          LET text == file.lines[urls[n].line_no]
              u == urls[n].url
              stop == urls[n].start + Len(u)
          IN /\ \E a, b \in 1..Len(u) : a < b /\ u[a] = "(" /\ u[b] = ")"
             /\ stop < Len(text)
             /\ At(text, stop) = ")"

(***************************************************************************)
(* C4: the stripping of a bare URL                                         *)
(***************************************************************************)
\* u is m without its maximal trailing run of characters of chars.
IsRstripped(u, m, chars) ==
    /\ Len(u) <= Len(m)
    /\ u = SubSeq(m, 1, Len(u))
    /\ \A k \in (Len(u) + 1)..Len(m) : m[k] \in chars
    /\ u # <<>> => u[Len(u)] \notin chars

\* C4 as stated: every bare URL recorded by either extractor is the match
\* of BARE_URL_PATTERN without its maximal trailing run of . , ; : and
\* nothing else is removed.
C4_StripsOnlyPunctuation ==
    pc = "extracted" =>
        \A n \in BareEntriesOf(urls) :
            IsRstripped(urls[n].url, urls[n].match, {".", ",", ";", ":"})

\* C4 as amended: a bare URL recorded by extract_urls_from_markdown is the
\* match without its maximal trailing run of . , ; : and one recorded by
\* extract_urls_from_rust is the match without its maximal trailing run of
\* . , ; : ' " and the grave accent; nothing is removed from the start.
C4_StripsPerExtractor ==
    pc = "extracted" =>
        \A n \in BareEntriesOf(urls) :
            IsRstripped(urls[n].url, urls[n].match,
                        IF file.kind = "md"
                        THEN {".", ",", ";", ":"}
                        ELSE {".", ",", ";", ":", "'", "\"", Backtick})

\* A bare URL of a Rust doc comment that lost a grave accent and the full
\* stop after it.
C4_Witness ==
    /\ pc = "extracted"
    /\ file.kind = "rs"
    /\ \E n \in BareEntriesOf(urls) :
          /\ Len(urls[n].match) = Len(urls[n].url) + 2
          /\ urls[n].match[Len(urls[n].match) - 1] = Backtick
          /\ urls[n].match[Len(urls[n].match)] = "."

(***************************************************************************)
(* One call of validate_url                                                *)
(***************************************************************************)
InitValidate ==
    /\ pc = "call"
    /\ \E t \in StrUpTo(ValidateAlphabet, MaxUrlTail) : url = <<"http://">> \o t
    /\ curl \in CurlOutcomes
    /\ ret = [kind |-> "none"]
    /\ ExtractIdle
    /\ MainIdle

Validate ==
    /\ pc = "call"
    /\ ret' = validate_url(url, curl)
    /\ pc' = "returned"
    /\ UNCHANGED <<url, curl, extractVars, mainVars>>

NextValidate == Validate

SpecValidate == InitValidate /\ [][NextValidate]_vars

\* The url holds one of the four substrings the claim names.
HoldsPlaceholder(u) ==
    \E n \in 1..Len(u) :
        \/ u[n] \in {"{", "<"}
        \/ n + 2 <= Len(u) /\ u[n] = "." /\ u[n + 1] = "." /\ u[n + 2] = "."
        \/ n + 2 <= Len(u) /\ u[n] = "example" /\ u[n + 1] = "." /\ u[n + 2] = "com"

\* C5: a url holding "{", "<", "..." or "example.com" is returned as SKIP
\* with the placeholder reason, whatever curl would do for it.
C5_PlaceholderSkipped ==
    (pc = "returned" /\ HoldsPlaceholder(url)) =>
        ret = [kind |-> "return", url |-> url, status |-> "SKIP",
               reason |-> <<"Template/placeholder URL">>]

\* A url holding example.com, skipped although curl would report a 404.
C5_Witness ==
    /\ pc = "returned"
    /\ \E n \in 1..(Len(url) - 2) :
          url[n] = "example" /\ url[n + 1] = "." /\ url[n + 2] = "com"
    /\ curl.kind = "completed"
    /\ curl.returncode = 0
    /\ curl.stdout = <<"4", "0", "4">>
    /\ ret.kind = "return"
    /\ ret.status = "SKIP"

CurlFailed(c) ==
    \/ c.kind \in {"timeout", "exception"}
    \/ c.kind = "completed" /\ c.returncode # 0
    \/ c.kind = "completed" /\ c.stdout[1] \notin {"2", "3"}

\* C6: validate_url never raises; it returns a triple, and when curl timed
\* out, failed, or gave a status that is not 2xx/3xx, a url that is not
\* skipped is returned as FAIL.
C6_NeverRaises ==
    pc = "returned" =>
        /\ ret.kind = "return"
        /\ (ret.status # "SKIP" /\ CurlFailed(curl)) => ret.status = "FAIL"

\* C7 as stated: for a url that is not skipped and a curl that gave a
\* status code, the url is PASS exactly when the code is 2xx or 3xx.
C7_StatusCodeAlone ==
    (pc = "returned" /\ ret.kind = "return" /\ ret.status # "SKIP"
        /\ curl.kind = "completed") =>
        (ret.status = "PASS" <=> curl.stdout[1] \in {"2", "3"})

\* C7 as amended: for a url that is not skipped and a curl that ran to its
\* end, the url is PASS exactly when curl exited 0 and the code is 2xx or
\* 3xx, and FAIL otherwise.
C7_ExitAndStatusCode ==
    (pc = "returned" /\ ret.kind = "return" /\ ret.status # "SKIP"
        /\ curl.kind = "completed") =>
        /\ ret.status \in {"PASS", "FAIL"}
        /\ ret.status = "PASS" <=>
              (curl.returncode = 0 /\ curl.stdout[1] \in {"2", "3"})

\* A 200 classified FAIL because curl exited non-zero.
C7_Witness ==
    /\ pc = "returned"
    /\ curl.kind = "completed"
    /\ curl.returncode = 28
    /\ curl.stdout = <<"2", "0", "0">>
    /\ ret.kind = "return"
    /\ ret.status = "FAIL"

(***************************************************************************)
(* One run of main()                                                       *)
(***************************************************************************)
\* The lines of the markdown file of Spec: a bare url, a longer bare url
\* that contains it, a link to it, a url urlparse rejects, a template url.
MdLines == {<<"http://", "a">>,
            <<"http://", "a", "/", "b">>,
            <<"[", "x", "]", "(", "http://", "a", ")">>,
            <<"http://", "[">>,
            <<"http://", "{">>}

\* A markdown file with more urls than the pool has workers: urls that
\* urlparse rejects, each longer than the one before so that none is a
\* substring of an earlier one.
ManyUrlLines ==
    [k \in 1..(max_workers + MaxQueued) |->
        <<"http://", "[">> \o [j \in 1..(k - 1) |-> "a"]]

\* The Rust files of Spec: none, or one with a doc comment quoting a url.
RsFiles == {<<>>,
            <<[kind |-> "rs", path |-> "src/lib.rs",
               lines |-> <<<<"///", " ", Backtick, "http://", "a", Backtick>>>>]>>}

\* What curl does in Spec: a 200, or no answer within the timeout.
MainCurl == {[kind |-> "completed", returncode |-> 0, stdout |-> <<"2", "0", "0">>],
             [kind |-> "timeout"]}

RECURSIVE SeqsUpTo(_, _)
SeqsUpTo(S, n) ==
    IF n = 0 THEN {<<>>}
    ELSE LET P == SeqsUpTo(S, n - 1)
         IN P \cup {Append(q, x) : q \in {t \in P : Len(t) = n - 1}, x \in S}

InitMain ==
    /\ pc = "scan"
    /\ \/ \E ls \in SeqsUpTo(MdLines, MaxLines), rs \in RsFiles :
             files = <<[kind |-> "md", path |-> "README.md", lines |-> ls]>> \o rs
       \/ files = <<[kind |-> "md", path |-> "README.md", lines |-> ManyUrlLines]>>
    /\ all_urls = <<>>
    /\ url_locations = <<>>
    /\ unique_urls = <<>>
    /\ submitted = 0
    /\ work_queue = <<>>
    /\ num_threads = 0
    /\ fut = <<>>
    /\ results = <<>>
    /\ report = <<>>
    /\ counts = [fail |-> 0, pass |-> 0, skip |-> 0]
    /\ exit_code = -1
    /\ ExtractIdle
    /\ ValidateIdle

poolVars == <<submitted, work_queue, num_threads, fut>>

Running == {u \in DOMAIN fut : fut[u].state = "running"}

\* Lines 189-209: extract, group by url, list the unique urls.
Scan ==
    /\ pc = "scan"
    /\ all_urls' = ExtractAll(files, 1)
    /\ unique_urls' = Keys(all_urls', 1, <<>>)
    /\ url_locations' = [u \in {unique_urls'[k] : k \in 1..Len(unique_urls')} |->
                            Locations(all_urls', 1, u)]
    /\ pc' = "submit"
    /\ UNCHANGED <<files, poolVars, results, report, counts, exit_code,
                   extractVars, validateVars>>

\* Line 216, one iteration of the comprehension: executor.submit queues the
\* work item and starts a worker thread while fewer than max_workers run.
\* (An executor that hands the item to an idle worker instead starts fewer
\* threads; the calls that can run at once are the same.)
Submit ==
    /\ pc = "submit"
    /\ submitted < Len(unique_urls)
    /\ LET u == unique_urls[submitted + 1]
       IN /\ fut' = [v \in DOMAIN fut \cup {u} |->
                        IF v = u
                        THEN [state |-> "pending", outcome |-> [kind |-> "none"],
                              yielded |-> FALSE]
                        ELSE fut[v]]
          /\ work_queue' = Append(work_queue, u)
    /\ num_threads' = IF num_threads < max_workers THEN num_threads + 1
                      ELSE num_threads
    /\ submitted' = submitted + 1
    /\ UNCHANGED <<pc, files, all_urls, url_locations, unique_urls, results,
                   report, counts, exit_code, extractVars, validateVars>>

\* Line 217: the comprehension is done and as_completed is entered.
AsCompleted ==
    /\ pc = "submit"
    /\ submitted = Len(unique_urls)
    /\ pc' = "collect"
    /\ UNCHANGED <<files, all_urls, url_locations, unique_urls, poolVars,
                   results, report, counts, exit_code, extractVars, validateVars>>

\* A worker thread that runs no call takes the next work item of the queue.
WorkerStart ==
    /\ work_queue # <<>>
    /\ Cardinality(Running) < num_threads
    /\ fut' = [fut EXCEPT ![Head(work_queue)].state = "running"]
    /\ work_queue' = Tail(work_queue)
    /\ UNCHANGED <<pc, files, all_urls, url_locations, unique_urls, submitted,
                   num_threads, results, report, counts, exit_code,
                   extractVars, validateVars>>

\* A worker's call of validate_url ends: it returned or it raised.
WorkerFinish ==
    /\ \E u \in Running, c \in MainCurl :
          fut' = [fut EXCEPT ![u].state = "finished",
                             ![u].outcome = validate_url(u, c)]
    /\ UNCHANGED <<pc, files, all_urls, url_locations, unique_urls, submitted,
                   work_queue, num_threads, results, report, counts, exit_code,
                   extractVars, validateVars>>

\* Lines 217-218: as_completed yields a finished future and future.result()
\* returns its triple, which is appended, or re-raises its exception.
Collect ==
    /\ pc = "collect"
    /\ \E u \in DOMAIN fut :
          /\ fut[u].state = "finished"
          /\ ~fut[u].yielded
          /\ fut' = [fut EXCEPT ![u].yielded = TRUE]
          /\ IF fut[u].outcome.kind = "return"
             THEN /\ results' = Append(results,
                                       [url |-> fut[u].outcome.url,
                                        status |-> fut[u].outcome.status,
                                        reason |-> fut[u].outcome.reason])
                  /\ pc' = "collect"
             ELSE /\ results' = results
                  /\ pc' = "unwind"
    /\ UNCHANGED <<files, all_urls, url_locations, unique_urls, submitted,
                   work_queue, num_threads, report, counts, exit_code,
                   extractVars, validateVars>>

\* The exception leaves the with block, whose exit waits for the workers to
\* run every queued call; then it leaves main() and the interpreter exits
\* with status 1.
Unwind ==
    /\ pc = "unwind"
    /\ work_queue = <<>>
    /\ Running = {}
    /\ pc' = "crashed"
    /\ exit_code' = 1
    /\ UNCHANGED <<files, all_urls, url_locations, unique_urls, poolVars,
                   results, report, counts, extractVars, validateVars>>

\* Lines 225-274: as_completed is exhausted; sort, print, exit.
Report ==
    /\ pc = "collect"
    /\ \A u \in DOMAIN fut : fut[u].yielded
    /\ results' = SortResults(results)
    /\ report' = ReportOf(results', 1, url_locations)
    /\ counts' = [fail |-> CountOf(results', "FAIL"),
                  pass |-> CountOf(results', "PASS"),
                  skip |-> CountOf(results', "SKIP")]
    /\ exit_code' = IF counts'.fail > 0 THEN 1 ELSE 0
    /\ pc' = "exited"
    /\ UNCHANGED <<files, all_urls, url_locations, unique_urls, poolVars,
                   extractVars, validateVars>>

Next ==
    \/ Scan
    \/ Submit
    \/ AsCompleted
    \/ WorkerStart
    \/ WorkerFinish
    \/ Collect
    \/ Unwind
    \/ Report

Spec == InitMain /\ [][Next]_vars

(***************************************************************************)
(* Claims about a run of main()                                            *)
(***************************************************************************)
Ended == pc \in {"exited", "crashed"}

\* The urls validate_url classified FAIL.
ClassifiedFail ==
    {u \in DOMAIN fut : fut[u].outcome.kind = "return"
                        /\ fut[u].outcome.status = "FAIL"}

ResultsOf(u) == {n \in 1..Len(results) : results[n].url = u}

\* C1: when the process has ended, its exit code is 1 if and only if at
\* least one unique url was classified FAIL, and 0 otherwise.
C1_ExitCodeIffFail ==
    Ended => /\ exit_code \in {0, 1}
             /\ exit_code = 1 <=> ClassifiedFail # {}

\* The urls a line shows: the urls of its links and its stripped bare urls.
UrlsOnLine(kind, line) ==
    IF kind = "rs" /\ ~IsDocstring(line) THEN {}
    ELSE LET links == LinkEntries("", 0, line, 0)
             bare == BareMatches(line, 0)
         IN {links[n].url : n \in 1..Len(links)}
            \cup {IF kind = "md" THEN MdStrip(bare[n].text)
                  ELSE RsStrip(bare[n].text) : n \in 1..Len(bare)}

\* The (file, line) locations at which u appears in the scanned files.
Occurrences(u) ==
    UNION {{[file |-> files[f].path, line_no |-> n] :
               n \in {m \in 1..Len(files[f].lines) :
                         u \in UrlsOnLine(files[f].kind, files[f].lines[m])}} :
           f \in 1..Len(files)}

\* C2: a url that appears at N locations is one key of url_locations, with
\* all N locations, is submitted for validation once, and a FAIL entry of
\* the report lists its first three locations and counts the rest.
C2_AllLocationsKept ==
    /\ pc # "scan" =>
          \A f \in 1..Len(files) : \A n \in 1..Len(files[f].lines) :
             \A u \in UrlsOnLine(files[f].kind, files[f].lines[n]) :
                /\ Cardinality({k \in 1..Len(unique_urls) : unique_urls[k] = u}) = 1
                /\ {url_locations[u][k] : k \in 1..Len(url_locations[u])}
                      = Occurrences(u)
    /\ pc \notin {"scan", "submit"} =>
          \A f \in 1..Len(files) : \A n \in 1..Len(files[f].lines) :
             \A u \in UrlsOnLine(files[f].kind, files[f].lines[n]) :
                u \in DOMAIN fut
    /\ pc = "exited" =>
          \A k \in 1..Len(report) :
             LET N == Cardinality(Occurrences(report[k].url))
             IN /\ Len(report[k].found_in) = Min(3, N)
                /\ report[k].more = (IF N > 3 THEN N - 3 ELSE 0)

\* C8: at most max_workers calls of validate_url are in progress, each
\* unique url is submitted once, and once main() has left the pool every
\* unique url has exactly one entry in results.
C8_BoundedPoolExactlyOnce ==
    /\ Cardinality(Running) <= 10
    /\ submitted = Cardinality(DOMAIN fut)
    /\ \A u \in DOMAIN fut : Cardinality(ResultsOf(u)) <= 1
    /\ Ended => \A k \in 1..Len(unique_urls) :
                   Cardinality(ResultsOf(unique_urls[k])) = 1

\* The pool's cap: no more than max_workers threads, each running at most
\* one call of validate_url.
PoolCapHolds ==
    /\ num_threads <= max_workers
    /\ Cardinality(Running) <= max_workers

\* max_workers calls are in progress and a submitted url waits in the queue.
PoolCapReached ==
    /\ Cardinality(Running) = max_workers
    /\ work_queue # <<>>

\* C10: a run ends only by reaching sys.exit, and nothing is reported and
\* no exit code is set before every unique url has its result in results.
C10_EndsAtSysExit ==
    /\ Ended => pc = "exited"
    /\ (exit_code # -1 \/ report # <<>>) =>
          \A k \in 1..Len(unique_urls) :
             Cardinality(ResultsOf(unique_urls[k])) = 1

\* C9: what a run ends with is fixed by the urls and their outcomes, not by
\* the order of completion: the sorted results are the urls' triples, FAIL
\* before PASS before SKIP and ascending by url within a status; the report
\* is the FAIL entries in that order; the exit code is 1 exactly when a url
\* is FAIL, or when a call raised, in which case nothing is reported.
C9_OrderIndependent ==
    /\ pc = "exited" =>
          /\ Len(results) = Len(unique_urls)
          /\ \A u \in DOMAIN fut :
                /\ fut[u].outcome.kind = "return"
                /\ \E n \in 1..Len(results) :
                      results[n] = [url |-> u, status |-> fut[u].outcome.status,
                                    reason |-> fut[u].outcome.reason]
          /\ \A i, j \in 1..Len(results) :
                i < j =>
                   \/ status_order(results[i].status) < status_order(results[j].status)
                   \/ /\ results[i].status = results[j].status
                      /\ StrLess(results[i].url, results[j].url)
          /\ Len(report) = Cardinality(ClassifiedFail)
          /\ \A k \in 1..Len(report) :
                report[k].url = results[k].url /\ results[k].status = "FAIL"
          /\ exit_code = (IF ClassifiedFail # {} THEN 1 ELSE 0)
    /\ pc = "crashed" =>
          /\ \E u \in DOMAIN fut : fut[u].outcome.kind = "raise"
          /\ report = <<>>
          /\ exit_code = 1

\* A run that ended with a FAIL, a PASS and a SKIP entry, the FAIL url
\* sorting after the PASS url as a string.
C9_Witness ==
    /\ pc = "exited"
    /\ Len(results) = 3
    /\ results[1].status = "FAIL"
    /\ results[2].status = "PASS"
    /\ results[3].status = "SKIP"
    /\ StrLess(results[2].url, results[1].url)

(***************************************************************************)
(* Termination of a run                                                    *)
(***************************************************************************)
\* The main thread and the worker threads are scheduled by the operating
\* system, and subprocess.run returns or raises within timeout + 2 seconds:
\* a step that can be taken is eventually taken.
FairSpec == Spec /\ WF_vars(Next)

\* Every run ends, at sys.exit or with the exception that left main().
RunEnds == <>Ended

====
